---- MODULE Spec2Model ----
(***************************************************************************)
(* Circles intersection, MPI version (src/src/mpi-circles.c).              *)
(*                                                                         *)
(* `size` MPI processes each hold a private replica of the array circles[] *)
(* and run the same loop of main(): reset_displacements, compute_forces on *)
(* the own index range, MPI_Reduce of the overlap counts to rank 0, an     *)
(* in-place MPI_Allgather of blocks of ncircles/size records,              *)
(* move_circles, and an MPI_Bcast of the whole array from rank 0.          *)
(*                                                                         *)
(* Numbers.  The C floats are modelled on an integer grid whose unit is    *)
(* EPSILON; every C expression is rounded once, toward zero and            *)
(* symmetrically in the sign, as IEEE arithmetic is sign-symmetric.        *)
(*                                                                         *)
(* Collectives.  MPI lets a collective return as soon as the caller's part *)
(* in it is over.  A sender of MPI_Reduce and the root of MPI_Bcast        *)
(* therefore leave at once (messages are queued per receiver), while the   *)
(* root of MPI_Reduce and every caller of a non-empty MPI_Allgather wait   *)
(* for the data they need.  Whether an MPI_Allgather of zero bytes waits   *)
(* for the other processes is up to the library: agZeroSync.               *)
(***************************************************************************)
EXTENDS Integers, Sequences, FiniteSets, TLC

\* ------------------------------------------------------------------ bounds
MaxN == 3
MaxWorkers == 3
MaxIter == 2

\* ------------------------------------------------------- program constants
\* const float EPSILON = 1e-5: the unit of the grid
EPSILON == 1
\* const float K = 1.5 = KNum / KDen
KNum == 3
KDen == 2
\* sqrtf(2.0) = Sqrt2Num / Sqrt2Den, to four digits
Sqrt2Num == 99
Sqrt2Den == 70

\* -------------------------------------------------------------- arithmetic
\* a float quotient on the grid: rounded toward zero, sign-symmetric
FDiv(a, b) ==
  IF a >= 0 THEN a \div b ELSE -((-a) \div b)

RECURSIVE ISqrtIn(_, _, _)
\* the s in lo..(hi - 1) with s * s <= v < (s + 1) * (s + 1), by bisection
ISqrtIn(v, lo, hi) ==
  IF hi - lo <= 1 THEN lo
  ELSE LET mid == (lo + hi) \div 2
       IN IF mid <= v \div mid THEN ISqrtIn(v, mid, hi) ELSE ISqrtIn(v, lo, mid)

\* hypotf(deltax, deltay), rounded down to the grid
hypotf(a, b) ==
  ISqrtIn(a * a + b * b, 0, a * a + b * b + 1)

\* the difference taken the wrong way round
OverlapSwapped(Rsum, dist) ==
  dist - Rsum

\* const float overlap = Rsum - dist
Overlap(Rsum, dist) ==
  Rsum - dist

\* the whole overlap on each axis
FallbackUndivided(overlap) ==
  overlap

\* overlap / sqrtf(2.0)
FallbackComponent(overlap) ==
  FDiv(overlap * Sqrt2Den, Sqrt2Num)

\* overlap / dist * delta
DirectedComponent(overlap, dist, delta) ==
  FDiv(overlap * delta, dist)

\* overlap_x / K
Damped(v) ==
  FDiv(v * KDen, KNum)

\* ------------------------------------------------------------ circle store
\* circle_t
circle_t(x, y, r, dx, dy) ==
  [x |-> x, y |-> y, r |-> r, dx |-> dx, dy |-> dy]

\* centres and radii init_circles may draw (randab), in grid units:
\* two heavily overlapping circles on the x axis, a small one off the axes
\* that overlaps both, and one far from all
Pool ==
  << << 0, 0, 10 >>, << 5, 0, 10 >>, << 3, 4, 2 >>, << 40, 30, 3 >> >>

\* arrays init_circles(n) can produce: circle i is drawn from the pool at
\* s + i * d, so d = 0 puts all centres on one point; displacements start
\* at zero
CircleSetsFrom(n, S, D) ==
  { [i \in 0..(n - 1) |->
       LET p == Pool[((s + i * d) % Len(Pool)) + 1]
       IN circle_t(p[1], p[2], p[3], 0, 0)] :
      s \in S, d \in D }

\* the arrays init_circles(n) produces in this model
InitCircleSets(n) ==
  CircleSetsFrom(n, 0..(Len(Pool) - 1), {0, 1, 2})

RECURSIVE ResetLoop(_, _, _)
\* for (int i = 0; i < ncircles; i++) circles[i].dx = circles[i].dy = 0.0;
ResetLoop(c, i, n) ==
  IF i >= n THEN c
  ELSE ResetLoop([c EXCEPT ![i].dx = 0, ![i].dy = 0], i + 1, n)

\* a reset whose loop starts at 1
ResetFromOne(c, n) ==
  ResetLoop(c, 1, n)

\* reset_displacements on the array c of n circles
reset_displacements(c, n) ==
  ResetLoop(c, 0, n)

\* the inner loop without its test for i == j
SkipSelfMutant(i, j) ==
  FALSE

\* if (i == j) continue;
SkipSelf(i, j) ==
  i = j

\* if (dist < Rsum - EPSILON)
Overlapping(dist, Rsum) ==
  dist < Rsum - EPSILON

\* if (dist < EPSILON)
Degenerate(dist) ==
  dist < EPSILON

\* lines 147-172 for one pair (i, j), i # j, on the loop state st: the
\* array and the count so far
PairUpdate(st, i, j) ==
  LET c == st.c
      deltax == c[j].x - c[i].x
      deltay == c[j].y - c[i].y
      dist == hypotf(deltax, deltay)
      Rsum == c[i].r + c[j].r
  IN IF ~Overlapping(dist, Rsum) THEN st
     ELSE
       LET overlap == Overlap(Rsum, dist)
           overlap_x == IF Degenerate(dist) THEN FallbackComponent(overlap)
                        ELSE DirectedComponent(overlap, dist, deltax)
           overlap_y == IF Degenerate(dist) THEN FallbackComponent(overlap)
                        ELSE DirectedComponent(overlap, dist, deltay)
           ci == [c EXCEPT ![i].dx = @ - Damped(overlap_x),
                           ![i].dy = @ - Damped(overlap_y)]
           cj == [ci EXCEPT ![j].dx = @ + Damped(overlap_x),
                            ![j].dy = @ + Damped(overlap_y)]
       IN [c |-> cj, n_intersections |-> st.n_intersections + 1]

\* the body of the inner loop of compute_forces for one (i, j); the loop
\* state is evaluated once and then updated
PairStep(st, i, j) ==
  IF SkipSelf(i, j) THEN st
  ELSE CHOOSE r \in { PairUpdate(s, i, j) : s \in {st} } : TRUE

RECURSIVE InnerLoop(_, _, _, _)
\* for (int j = 0; j < ncircles; j++)
InnerLoop(st, i, j, n) ==
  IF j >= n THEN st ELSE InnerLoop(PairStep(st, i, j), i, j + 1, n)

RECURSIVE OuterLoop(_, _, _, _)
\* for (int i = start; i < end; i++)
OuterLoop(st, i, end, n) ==
  IF i >= end THEN st ELSE OuterLoop(InnerLoop(st, i, 0, n), i + 1, end, n)

\* compute_forces(start, end) on the array c of n circles:
\* the array it leaves and the count it returns
compute_forces(c, start, end, n) ==
  OuterLoop([c |-> c, n_intersections |-> 0], start, end, n)

RECURSIVE MoveLoop(_, _, _)
\* for (int i = 0; i < ncircles; i++) { x += dx; y += dy; }
MoveLoop(c, i, n) ==
  IF i >= n THEN c
  ELSE MoveLoop([c EXCEPT ![i].x = @ + c[i].dx, ![i].y = @ + c[i].dy], i + 1, n)

\* a move whose loop starts at 1
MoveFromOne(c, n) ==
  MoveLoop(c, 1, n)

\* move_circles on the array c of n circles
move_circles(c, n) ==
  MoveLoop(c, 0, n)

\* ------------------------------------------------------------- partitioner
\* the start of a range of n / size circles per rank
PartStartMutant(rank, n, sz) ==
  rank * (n \div sz)

\* the end of a range of n / size circles per rank
PartEndBlocks(rank, n, sz) ==
  (rank + 1) * (n \div sz)

\* int start = (rank * ncircles) / size;
PartStart(rank, n, sz) ==
  (rank * n) \div sz

\* int end = ((rank + 1) * ncircles) / size;
PartEnd(rank, n, sz) ==
  ((rank + 1) * n) \div sz

\* ------------------------------------------------------------- collectives
\* the receive count of MPI_Allgather, in records: ncircles / size
BlockLen(n, sz) ==
  n \div sz

\* the indices of rank's block of the buffer: ncircles / size records from
\* rank * (ncircles / size)
BlockRange(rank, n, sz) ==
  (rank * BlockLen(n, sz))..((rank + 1) * BlockLen(n, sz) - 1)

\* with MPI_IN_PLACE, rank's contribution is its own block of the buffer
OwnBlock(c, rank, n, sz) ==
  [k \in BlockRange(rank, n, sz) |-> c[k]]

\* the receive buffer after MPI_Allgather: block v comes from rank v, whole
\* records; what lies behind the last block is left as it was
RECURSIVE CopyBlocks(_, _, _, _, _)
\* records k..lim-1 of the receive buffer, each from the block that holds it
CopyBlocks(c, blocks, k, lim, blk) ==
  IF k >= lim THEN c
  ELSE CopyBlocks([c EXCEPT ![k] = blocks[k \div blk][k]], blocks, k + 1, lim, blk)

AllgatherResult(c, blocks, n, sz) ==
  CopyBlocks(c, blocks, 0, sz * BlockLen(n, sz), BlockLen(n, sz))

\* a broadcast of the centres and radii only: the displacements stay local
BcastResultMutant(c, msg) ==
  [k \in DOMAIN msg |->
     IF k \in DOMAIN c
       THEN [msg[k] EXCEPT !.dx = c[k].dx, !.dy = c[k].dy]
       ELSE msg[k]]

\* the buffer of a rank other than 0 after MPI_Bcast of ncircles records
BcastResult(c, msg) ==
  msg

\* --------------------------------------------------------------- the state
VARIABLES
  size,            \* MPI_Comm_size
  ncircles,        \* int ncircles, the same on every rank after line 253
  iterations,      \* int iterations
  agZeroSync,      \* whether a zero-byte MPI_Allgather waits for the others
  circles,         \* circles[w]: the array of rank w
  pc,              \* pc[w]: where rank w is in main
  it,              \* it[w]: the loop counter of rank w
  start,           \* start[w]
  end,             \* end[w]
  local_overlaps,  \* local_overlaps[w]
  total_overlaps,  \* total_overlaps of rank 0
  redQ,            \* redQ[w]: counts rank w sent to rank 0, not yet reduced
  agQ,             \* agQ[v][w]: blocks rank v sent to rank w, not yet received
  bcQ,             \* bcQ[w]: arrays rank 0 broadcast to w, not yet received
  printed,         \* the overlap counts rank 0 printed, in order
  init0,           \* history: the array init_circles produced
  contrib,         \* history: contrib[w], the arrays w's compute_forces left
  lastBcast,       \* history: the array rank 0 held after its last MPI_Bcast
  calls            \* history: calls[w], the collectives w entered in the loop

vars ==
  << size, ncircles, iterations, agZeroSync, circles, pc, it, start, end,
     local_overlaps, total_overlaps, redQ, agQ, bcQ, printed, init0, contrib,
     lastBcast, calls >>

Workers ==
  0..(size - 1)

Others(w) ==
  Workers \ {w}

\* a loop test that is off by one
LoopContinuesMutant(i, iters) ==
  i <= iters

\* for (int it = 0; it < iterations; it++)
LoopContinues(i, iters) ==
  i < iters

\* where a rank goes when it is at the loop test with counter i
LoopTarget(i, iters) ==
  IF LoopContinues(i, iters) THEN "reset" ELSE "done"

Init ==
  /\ size \in 1..MaxWorkers
  /\ ncircles \in 0..MaxN
  /\ iterations \in 0..MaxIter
  /\ agZeroSync \in IF BlockLen(ncircles, size) = 0 THEN BOOLEAN ELSE {TRUE}
  /\ init0 \in InitCircleSets(ncircles)
  /\ circles = [w \in Workers |-> IF w = 0 THEN init0 ELSE << >>]
  /\ pc = [w \in Workers |-> "init"]
  /\ it = [w \in Workers |-> 0]
  /\ start = [w \in Workers |-> 0]
  /\ end = [w \in Workers |-> 0]
  /\ local_overlaps = [w \in Workers |-> 0]
  /\ total_overlaps = 0
  /\ redQ = [w \in Workers |-> << >>]
  /\ agQ = [v \in Workers |-> [w \in Workers |-> << >>]]
  /\ bcQ = [w \in Workers |-> << >>]
  /\ printed = << >>
  /\ contrib = [w \in Workers |-> << >>]
  /\ lastBcast = << >>
  /\ calls = [w \in Workers |-> << >>]

\* rank 0 sends its array to every other rank
BcastSend ==
  [w \in Workers |-> IF w = 0 THEN bcQ[w] ELSE Append(bcQ[w], circles[0])]

\* lines 248-258 on rank 0: init_circles is done, the array is broadcast
InitBcastRoot ==
  /\ pc[0] = "init"
  /\ bcQ' = BcastSend
  /\ lastBcast' = circles[0]
  /\ pc' = [pc EXCEPT ![0] = LoopTarget(0, iterations)]
  /\ UNCHANGED << size, ncircles, iterations, agZeroSync, circles,
                  it, start, end, local_overlaps,
                  total_overlaps, redQ, agQ, printed, init0,
                  contrib, calls >>

\* lines 253-258 on another rank: malloc, then receive the array
InitBcastRecv(w) ==
  /\ w # 0
  /\ pc[w] = "init"
  /\ Len(bcQ[w]) > 0
  /\ circles' = [circles EXCEPT ![w] = BcastResult(circles[w], Head(bcQ[w]))]
  /\ bcQ' = [bcQ EXCEPT ![w] = Tail(@)]
  /\ pc' = [pc EXCEPT ![w] = LoopTarget(0, iterations)]
  /\ UNCHANGED << size, ncircles, iterations, agZeroSync, it,
                  start, end, local_overlaps, total_overlaps,
                  redQ, agQ, printed, init0, contrib,
                  lastBcast, calls >>

\* line 267
Reset(w) ==
  /\ pc[w] = "reset"
  /\ circles' = [circles EXCEPT ![w] = reset_displacements(@, ncircles)]
  /\ pc' = [pc EXCEPT ![w] = "compute"]
  /\ UNCHANGED << size, ncircles, iterations, agZeroSync, it,
                  start, end, local_overlaps, total_overlaps,
                  redQ, agQ, bcQ, printed, init0, contrib,
                  lastBcast, calls >>

\* lines 269-272
Compute(w) ==
  /\ pc[w] = "compute"
  /\ \E res \in { compute_forces(circles[w], PartStart(w, ncircles, size),
                                   PartEnd(w, ncircles, size), ncircles) } :
       /\ start' = [start EXCEPT ![w] = PartStart(w, ncircles, size)]
       /\ end' = [end EXCEPT ![w] = PartEnd(w, ncircles, size)]
       /\ circles' = [circles EXCEPT ![w] = res.c]
       /\ local_overlaps' = [local_overlaps EXCEPT ![w] = res.n_intersections]
       /\ contrib' = [contrib EXCEPT ![w] = Append(@, res.c)]
  /\ pc' = [pc EXCEPT ![w] = "reduce"]
  /\ UNCHANGED << size, ncircles, iterations, agZeroSync, it,
                  total_overlaps, redQ, agQ, bcQ, printed,
                  init0, lastBcast, calls >>

\* line 275 on a rank other than 0: the count is sent
ReduceSend(w) ==
  /\ w # 0
  /\ pc[w] = "reduce"
  /\ redQ' = [redQ EXCEPT ![w] = Append(@, local_overlaps[w])]
  /\ calls' = [calls EXCEPT ![w] = Append(@, "reduce")]
  /\ pc' = [pc EXCEPT ![w] = "allgather"]
  /\ UNCHANGED << size, ncircles, iterations, agZeroSync, circles,
                  it, start, end, local_overlaps,
                  total_overlaps, agQ, bcQ, printed, init0,
                  contrib, lastBcast >>

RECURSIVE SumHeads(_, _)
\* MPI_SUM over the counts at the head of the queues of the ranks in S
SumHeads(q, S) ==
  IF S = {} THEN 0
  ELSE LET v == CHOOSE u \in S : TRUE
       IN (IF Len(q[v]) > 0 THEN Head(q[v]) ELSE 0) + SumHeads(q, S \ {v})

\* line 275 on rank 0, which starts with whatever counts have arrived
ReduceRootNoWait ==
  /\ pc[0] = "reduce"
  /\ total_overlaps' = local_overlaps[0] + SumHeads(redQ, Others(0))
  /\ redQ' = [w \in Workers |-> IF Len(redQ[w]) > 0 THEN Tail(redQ[w]) ELSE redQ[w]]
  /\ calls' = [calls EXCEPT ![0] = Append(@, "reduce")]
  /\ pc' = [pc EXCEPT ![0] = "allgather"]
  /\ UNCHANGED << size, ncircles, iterations, agZeroSync, circles,
                  it, start, end, local_overlaps, agQ, bcQ,
                  printed, init0, contrib, lastBcast >>

\* line 275 on rank 0: the sum of all counts, once all have arrived
ReduceRoot ==
  /\ pc[0] = "reduce"
  /\ \A v \in Others(0) : Len(redQ[v]) > 0
  /\ total_overlaps' = local_overlaps[0] + SumHeads(redQ, Others(0))
  /\ redQ' = [w \in Workers |-> IF w = 0 THEN redQ[w] ELSE Tail(redQ[w])]
  /\ calls' = [calls EXCEPT ![0] = Append(@, "reduce")]
  /\ pc' = [pc EXCEPT ![0] = "allgather"]
  /\ UNCHANGED << size, ncircles, iterations, agZeroSync, circles,
                  it, start, end, local_overlaps, agQ, bcQ,
                  printed, init0, contrib, lastBcast >>

\* whether this run's MPI_Allgather exchanges messages at all
AgExchanges ==
  BlockLen(ncircles, size) > 0 \/ agZeroSync

\* line 278, entering: the own block goes to every other rank
AllgatherEnter(w) ==
  /\ pc[w] = "allgather"
  /\ agQ' = IF AgExchanges
              THEN [agQ EXCEPT ![w] = [v \in Workers |->
                      IF v = w THEN agQ[w][v]
                      ELSE Append(agQ[w][v], OwnBlock(circles[w], w, ncircles, size))]]
              ELSE agQ
  /\ calls' = [calls EXCEPT ![w] = Append(@, "allgather")]
  /\ pc' = [pc EXCEPT ![w] = "agwait"]
  /\ UNCHANGED << size, ncircles, iterations, agZeroSync, circles,
                  it, start, end, local_overlaps,
                  total_overlaps, redQ, bcQ, printed, init0,
                  contrib, lastBcast >>

\* line 278, returning: every other rank's block has arrived and is stored
AllgatherExit(w) ==
  /\ pc[w] = "agwait"
  /\ AgExchanges => \A v \in Others(w) : Len(agQ[v][w]) > 0
  /\ LET blocks == [v \in Workers |->
                      IF v = w \/ ~AgExchanges
                        THEN OwnBlock(circles[w], v, ncircles, size)
                        ELSE Head(agQ[v][w])]
     IN circles' = [circles EXCEPT ![w] = AllgatherResult(@, blocks, ncircles, size)]
  /\ agQ' = IF AgExchanges
              THEN [v \in Workers |-> IF v = w THEN agQ[v]
                                      ELSE [agQ[v] EXCEPT ![w] = Tail(@)]]
              ELSE agQ
  /\ pc' = [pc EXCEPT ![w] = "move"]
  /\ UNCHANGED << size, ncircles, iterations, agZeroSync, it,
                  start, end, local_overlaps, total_overlaps,
                  redQ, bcQ, printed, init0, contrib,
                  lastBcast, calls >>

\* line 280
Move(w) ==
  /\ pc[w] = "move"
  /\ circles' = [circles EXCEPT ![w] = move_circles(@, ncircles)]
  /\ pc' = [pc EXCEPT ![w] = "bcast"]
  /\ UNCHANGED << size, ncircles, iterations, agZeroSync, it,
                  start, end, local_overlaps, total_overlaps,
                  redQ, agQ, bcQ, printed, init0, contrib,
                  lastBcast, calls >>

\* lines 283-293 on rank 0: broadcast, print the total, next round
BcastRoot ==
  /\ pc[0] = "bcast"
  /\ bcQ' = BcastSend
  /\ lastBcast' = circles[0]
  /\ calls' = [calls EXCEPT ![0] = Append(@, "bcast")]
  /\ printed' = Append(printed, total_overlaps)
  /\ it' = [it EXCEPT ![0] = @ + 1]
  /\ pc' = [pc EXCEPT ![0] = LoopTarget(it[0] + 1, iterations)]
  /\ UNCHANGED << size, ncircles, iterations, agZeroSync, circles,
                  start, end, local_overlaps, total_overlaps,
                  redQ, agQ, init0, contrib >>

\* lines 283-293 on another rank: receive rank 0's array, next round
BcastRecv(w) ==
  /\ w # 0
  /\ pc[w] = "bcast"
  /\ Len(bcQ[w]) > 0
  /\ circles' = [circles EXCEPT ![w] = BcastResult(circles[w], Head(bcQ[w]))]
  /\ bcQ' = [bcQ EXCEPT ![w] = Tail(@)]
  /\ calls' = [calls EXCEPT ![w] = Append(@, "bcast")]
  /\ it' = [it EXCEPT ![w] = @ + 1]
  /\ pc' = [pc EXCEPT ![w] = LoopTarget(it[w] + 1, iterations)]
  /\ UNCHANGED << size, ncircles, iterations, agZeroSync, start,
                  end, local_overlaps, total_overlaps, redQ,
                  agQ, printed, init0, contrib, lastBcast >>

Next ==
  \/ InitBcastRoot
  \/ \E w \in Workers : InitBcastRecv(w)
  \/ \E w \in Workers : Reset(w)
  \/ \E w \in Workers : Compute(w)
  \/ \E w \in Workers : ReduceSend(w)
  \/ ReduceRoot
  \/ \E w \in Workers : AllgatherEnter(w)
  \/ \E w \in Workers : AllgatherExit(w)
  \/ \E w \in Workers : Move(w)
  \/ BcastRoot
  \/ \E w \in Workers : BcastRecv(w)

Spec ==
  Init /\ [][Next]_vars

\* The control flow of main depends on the circles only through n / size,
\* which is zero or not: the runs checked for termination have the least
\* and the largest n >= 1 and one array of circles for each.
FairInit ==
  /\ Init
  /\ ncircles \in {1, MaxN}
  /\ init0 \in CircleSetsFrom(ncircles, {0}, {1})

\* the ranks are processes that keep running: while some rank can take a
\* step, a step is taken
FairSpec ==
  FairInit /\ [][Next]_vars /\ WF_vars(Next)

\* ------------------------------------------------ the loop run in lock step
\* what compute_forces leaves on rank v when every rank starts a round from c
LocalCompute(c, v, n, sz) ==
  compute_forces(reset_displacements(c, n), PartStart(v, n, sz), PartEnd(v, n, sz), n)

RECURSIVE SumCounts(_, _, _, _)
\* the MPI_SUM of the counts of ranks v..sz-1 in a round started from c
SumCounts(c, v, n, sz) ==
  IF v >= sz THEN 0
  ELSE LocalCompute(c, v, n, sz).n_intersections + SumCounts(c, v + 1, n, sz)

\* rank 0's array after the merge of a round all ranks started from c
MergedRound(c, n, sz) ==
  AllgatherResult(LocalCompute(c, 0, n, sz).c,
                  [v \in 0..(sz - 1) |-> OwnBlock(LocalCompute(c, v, n, sz).c, v, n, sz)],
                  n, sz)

\* the array rank 0 broadcasts at the end of a round all ranks started from c
RoundResult(c, n, sz) ==
  move_circles(MergedRound(c, n, sz), n)

RECURSIVE Run(_, _, _, _)
\* iters further rounds from st: the array rank 0 holds and the totals it
\* has printed
Run(st, n, sz, iters) ==
  IF iters = 0 THEN st
  ELSE Run([c |-> RoundResult(st.c, n, sz),
            counts |-> Append(st.counts, SumCounts(st.c, 0, n, sz))],
           n, sz, iters - 1)

\* the array rank 0 holds after iters rounds from c
RunResult(c, n, sz, iters) ==
  Run([c |-> c, counts |-> << >>], n, sz, iters).c

\* the totals rank 0 prints in iters rounds from c
RunCounts(c, n, sz, iters) ==
  Run([c |-> c, counts |-> << >>], n, sz, iters).counts

\* ------------------------------------------------------------------ claims
\* the centres of an array
Positions(c) ==
  [i \in DOMAIN c |-> << c[i].x, c[i].y >>]

\* the unordered pairs {i, j} of c with dist(i, j) < r_i + r_j - EPSILON
OverlappingPairs(c) ==
  { p \in SUBSET (DOMAIN c) :
      \E i, j \in DOMAIN c :
        /\ i < j
        /\ p = {i, j}
        /\ Overlapping(hypotf(c[j].x - c[i].x, c[j].y - c[i].y), c[i].r + c[j].r) }

\* C1: a finished run with any number of workers has printed the overlap
\* counts and holds the final positions of the run with one worker on the
\* same initial circles and iteration count.
C1_SameAsOneWorker ==
  pc[0] = "done" =>
    /\ printed = RunCounts(init0, ncircles, 1, iterations)
    /\ Positions(circles[0]) = Positions(RunResult(init0, ncircles, 1, iterations))

\* the run with one worker is the lock-step run of size 1 (the reference of C1)
OneWorkerIsReference ==
  (size = 1 /\ pc[0] = "done") =>
    /\ printed = RunCounts(init0, ncircles, 1, iterations)
    /\ circles[0] = RunResult(init0, ncircles, 1, iterations)

\* C2: the total rank 0 obtains from the count reduction is the number of
\* overlapping unordered pairs of the round's circles.
C2_EachPairCountedOnce ==
  (pc[0] = "allgather") =>
    total_overlaps = Cardinality(OverlappingPairs(circles[0]))

RECURSIVE SumContrib(_, _, _, _)
\* the sum over the ranks in S of field f of circle k as round t's
\* compute_forces left it
SumContrib(S, t, k, f) ==
  IF S = {} THEN 0
  ELSE LET v == CHOOSE u \in S : TRUE
       IN contrib[v][t + 1][k][f] + SumContrib(S \ {v}, t, k, f)

\* C3: after the merge and before move_circles, every rank holds for every
\* circle the sum of the displacements all ranks accumulated in the round.
C3_MergeIsFullSum ==
  \A w \in Workers :
    (pc[w] = "move" /\ \A v \in Workers : Len(contrib[v]) > it[w]) =>
      \A k \in 0..(ncircles - 1) :
        /\ circles[w][k].dx = SumContrib(Workers, it[w], k, "dx")
        /\ circles[w][k].dy = SumContrib(Workers, it[w], k, "dy")

\* C4: a rank that has just left the initial distribution or a round's
\* MPI_Bcast holds, field for field, the array rank 0 held when it left it.
C4_ReplicasEqualAfterBcast ==
  \A w \in Workers :
    pc[w] \in {"reset", "done"} => circles[w] = lastBcast

\* C4's case: three ranks have left the broadcast of a round that moved circles
C4_Witness ==
  /\ size = 3
  /\ ncircles = 3
  /\ \A w \in Workers : pc[w] = "reset" /\ it[w] = 1
  /\ \E k \in DOMAIN lastBcast : lastBcast[k].dx # 0
  /\ Positions(lastBcast) # Positions(init0)

\* ---------------------------------------------- the partitioner on its own
MaxPartN == 12
MaxPartW == 5

\* any n and worker count; every rank is about to execute lines 269-270
PartInit ==
  /\ size \in 1..MaxPartW
  /\ ncircles \in 0..MaxPartN
  /\ iterations = 1
  /\ agZeroSync = TRUE
  /\ init0 = << >>
  /\ circles = [w \in Workers |-> << >>]
  /\ pc = [w \in Workers |-> "compute"]
  /\ it = [w \in Workers |-> 0]
  /\ start = [w \in Workers |-> 0]
  /\ end = [w \in Workers |-> 0]
  /\ local_overlaps = [w \in Workers |-> 0]
  /\ total_overlaps = 0
  /\ redQ = [w \in Workers |-> << >>]
  /\ agQ = [v \in Workers |-> [w \in Workers |-> << >>]]
  /\ bcQ = [w \in Workers |-> << >>]
  /\ printed = << >>
  /\ contrib = [w \in Workers |-> << >>]
  /\ lastBcast = << >>
  /\ calls = [w \in Workers |-> << >>]

\* lines 269-270 on rank w
Partition(w) ==
  /\ pc[w] = "compute"
  /\ start' = [start EXCEPT ![w] = PartStart(w, ncircles, size)]
  /\ end' = [end EXCEPT ![w] = PartEnd(w, ncircles, size)]
  /\ pc' = [pc EXCEPT ![w] = "ranged"]
  /\ UNCHANGED << size, ncircles, iterations, agZeroSync, circles, it,
                  local_overlaps, total_overlaps, redQ, agQ, bcQ, printed,
                  init0, contrib, lastBcast, calls >>

PartNext ==
  \E w \in Workers : Partition(w)

PartSpec ==
  PartInit /\ [][PartNext]_vars

\* the indices of rank w's range [start, end)
Range(w) ==
  start[w]..(end[w] - 1)

\* C5: the ranges of ranks 0..size-1 are contiguous, pairwise disjoint, cover
\* exactly [0, n), and any two differ in size by at most one.
C5_PartitionCoverage ==
  (\A w \in Workers : pc[w] = "ranged") =>
    /\ start[0] = 0
    /\ end[size - 1] = ncircles
    /\ \A w \in Workers : start[w] <= end[w]
    /\ \A w \in Workers \ {size - 1} : end[w] = start[w + 1]
    /\ \A w, v \in Workers : w # v => Range(w) \cap Range(v) = {}
    /\ UNION { Range(w) : w \in Workers } = 0..(ncircles - 1)
    /\ \A w, v \in Workers : (end[w] - start[w]) - (end[v] - start[v]) <= 1

\* C5's case: more circles than ranks, not evenly divisible
C5_Witness ==
  /\ \A w \in Workers : pc[w] = "ranged"
  /\ size >= 3
  /\ ncircles > size
  /\ ncircles % size # 0
  /\ \E w, v \in Workers : end[w] - start[w] # end[v] - start[v]

\* C6: whatever the interleaving, a finished run has printed the counts and
\* holds the array that the initial circles, n, the number of workers and
\* the iteration count determine.
C6_Determinism ==
  /\ pc[0] = "done" =>
       printed = RunCounts(init0, ncircles, size, iterations)
  /\ \A w \in Workers :
       pc[w] = "done" =>
         circles[w] = RunResult(init0, ncircles, size, iterations)

\* C6's case: three ranks finished two rounds in which circles overlapped
C6_Witness ==
  /\ size = 3
  /\ iterations = 2
  /\ \A w \in Workers : pc[w] = "done"
  /\ Len(printed) = 2
  /\ printed[1] > 0
  /\ Positions(circles[0]) # Positions(init0)

\* two circles that overlap and whose centres differ
OverlappingDistinctPair(c) ==
  /\ DOMAIN c = {0, 1}
  /\ << c[0].x, c[0].y >> # << c[1].x, c[1].y >>
  /\ Overlapping(hypotf(c[1].x - c[0].x, c[1].y - c[0].y), c[0].r + c[1].r)

\* C7: with exactly two overlapping circles with distinct centres, after
\* the first iteration the two position changes are opposite and equal in
\* size, and each circle has moved away from the other.
C7_SymmetricSeparation ==
  \A w \in Workers :
    (/\ OverlappingDistinctPair(init0)
     /\ it[w] = 1
     /\ pc[w] \in {"reset", "done"}) =>
      LET m0x == circles[w][0].x - init0[0].x
          m0y == circles[w][0].y - init0[0].y
          m1x == circles[w][1].x - init0[1].x
          m1y == circles[w][1].y - init0[1].y
      IN /\ m0x = -m1x
         /\ m0y = -m1y
         /\ m0x * (init0[0].x - init0[1].x) + m0y * (init0[0].y - init0[1].y) > 0
         /\ m1x * (init0[1].x - init0[0].x) + m1y * (init0[1].y - init0[0].y) > 0

\* C7 on the runs where every rank's merge block is not empty
SymmetricSeparationUpToTwoWorkers ==
  size <= 2 => C7_SymmetricSeparation

\* C8: with one circle every printed total is 0 and the circle stays, on
\* every replica, where init_circles put it.
C8_SingleCircle ==
  ncircles = 1 =>
    /\ \A i \in 1..Len(printed) : printed[i] = 0
    /\ total_overlaps = 0
    /\ \A w \in Workers :
         /\ local_overlaps[w] = 0
         /\ DOMAIN circles[w] = {0} => Positions(circles[w]) = Positions(init0)

\* C8's case: one circle, three ranks, two rounds run to the end
C8_Witness ==
  /\ ncircles = 1
  /\ size = 3
  /\ Len(printed) = 2
  /\ \A w \in Workers : pc[w] = "done" /\ DOMAIN circles[w] = {0}

RECURSIVE RoundCalls(_)
\* the collectives of k rounds, in the order of the loop body
RoundCalls(k) ==
  IF k = 0 THEN << >>
  ELSE RoundCalls(k - 1) \o << "reduce", "allgather", "bcast" >>

\* C9: every rank ends, and ends after exactly `iterations` rounds in each
\* of which it entered the count reduce, the displacement allgather and the
\* position broadcast, in this order.
C9_FixedLengthRun ==
  <>[](\A w \in Workers :
         /\ pc[w] = "done"
         /\ it[w] = iterations
         /\ calls[w] = RoundCalls(iterations))

\* C9's case: three ranks have run two rounds on circles and ended
C9_Witness ==
  /\ size = 3
  /\ ncircles >= 1
  /\ iterations = 2
  /\ \A w \in Workers : pc[w] = "done" /\ Len(calls[w]) = 6

\* rank w has executed reset_displacements of its round it[w]
Begun(w) ==
  pc[w] \in {"compute", "reduce", "allgather", "agwait", "move", "bcast"}

\* rank 0 is past the count reduction of its round it[0]
RootPastReduce ==
  pc[0] \in {"allgather", "agwait", "move", "bcast"}

Displacements(c) ==
  [i \in DOMAIN c |-> << c[i].dx, c[i].dy >>]

\* C11: two ranks about to run move_circles in the same round hold the same
\* displacement for every index, and two ranks that have run it and not yet
\* left the broadcast hold the same positions.
C11_IdenticalIntegration ==
  \A w, v \in Workers :
    it[w] = it[v] =>
      /\ (pc[w] = "move" /\ pc[v] = "move") =>
           Displacements(circles[w]) = Displacements(circles[v])
      /\ (pc[w] = "bcast" /\ pc[v] = "bcast") =>
           Positions(circles[w]) = Positions(circles[v])

\* C11 on the runs where the blocks of n / size records cover all indices
IdenticalIntegrationWhenDivisible ==
  (BlockLen(ncircles, size) * size = ncircles) => C11_IdenticalIntegration

\* C12: when compute_forces starts, every dx and dy of the rank's array is 0.
C12_ZeroAtComputeStart ==
  \A w \in Workers :
    pc[w] = "compute" =>
      \A k \in DOMAIN circles[w] : circles[w][k].dx = 0 /\ circles[w][k].dy = 0

\* C12's case: a rank other than 0 starts compute_forces of round 1 after a
\* broadcast that carried non-zero displacements
C12_Witness ==
  \E w \in Others(0) :
    /\ pc[w] = "compute"
    /\ it[w] = 1
    /\ \E k \in DOMAIN lastBcast : lastBcast[k].dx # 0
    /\ \A k \in DOMAIN circles[w] : circles[w][k].dx = 0

\* the pairs (i, j) rank w's compute_forces looks at: i in its range, j # i
ScannedPairs(w) ==
  { p \in (PartStart(w, ncircles, size)..(PartEnd(w, ncircles, size) - 1))
            \X (0..(ncircles - 1)) : ~SkipSelf(p[1], p[2]) }

\* hypotf of the centres of circles i and j of the array c
Dist(c, i, j) ==
  hypotf(c[j].x - c[i].x, c[j].y - c[i].y)

\* Rsum of circles i and j of the array c
RadiusSum(c, i, j) ==
  c[i].r + c[j].r

\* C13: for every pair a rank's compute_forces is about to scan, if the
\* pair passes the overlap test then the overlap computed is positive.
C13_OverlapPositive ==
  \A w \in Workers :
    pc[w] = "compute" =>
      \A p \in ScannedPairs(w) :
        LET dist == Dist(circles[w], p[1], p[2])
            Rsum == RadiusSum(circles[w], p[1], p[2])
        IN Overlapping(dist, Rsum) => Overlap(Rsum, dist) > 0

\* C13's case: in round 1 a rank is about to scan a pair that overlaps
C13_Witness ==
  \E w \in Workers :
    /\ pc[w] = "compute"
    /\ it[w] = 1
    /\ \E p \in ScannedPairs(w) :
         Overlapping(Dist(circles[w], p[1], p[2]), RadiusSum(circles[w], p[1], p[2]))

\* C14: for every overlapping pair a rank's compute_forces is about to
\* scan: if dist < EPSILON, the pair's contribution is the overlap divided
\* by sqrt(2) and by K on each axis, subtracted from i and added to j;
\* otherwise the dist that divides is at least EPSILON.
C14_DegenerateFallback ==
  \A w \in Workers :
    pc[w] = "compute" =>
      \A p \in ScannedPairs(w) :
        LET i == p[1]
            j == p[2]
            dist == Dist(circles[w], i, j)
            Rsum == RadiusSum(circles[w], i, j)
            fixed == FDiv(FDiv((Rsum - dist) * Sqrt2Den, Sqrt2Num) * KDen, KNum)
            after == PairUpdate([c |-> circles[w], n_intersections |-> 0], i, j).c
        IN Overlapping(dist, Rsum) =>
             IF dist < EPSILON
               THEN /\ after[i].dx = -fixed
                    /\ after[i].dy = -fixed
                    /\ after[j].dx = fixed
                    /\ after[j].dy = fixed
               ELSE dist >= EPSILON /\ dist > 0

\* C14's case: a rank is about to scan an overlapping pair with one centre
C14_Witness ==
  \E w \in Workers :
    /\ pc[w] = "compute"
    /\ \E p \in ScannedPairs(w) :
         /\ Dist(circles[w], p[1], p[2]) = 0
         /\ Overlapping(0, RadiusSum(circles[w], p[1], p[2]))
         /\ PairUpdate([c |-> circles[w], n_intersections |-> 0],
                       p[1], p[2]).c[p[2]].dx > 0

\* C15: the block of the buffer rank r contributes to the displacement
\* merge is the range r computed forces for, and the blocks of all ranks
\* together cover every index in [0, n).
C15_BlocksMatchPartitions ==
  (\A w \in Workers : pc[w] = "ranged") =>
    /\ \A w \in Workers : BlockRange(w, ncircles, size) = Range(w)
    /\ UNION { BlockRange(w, ncircles, size) : w \in Workers } = 0..(ncircles - 1)

\* C15 on the runs where size divides n
BlocksMatchPartitionsWhenDivisible ==
  (ncircles % size = 0) => C15_BlocksMatchPartitions

\* C16: the total rank 0 gets from the count reduce is the count one call
\* compute_forces(0, n) returns on the array the round started from, and
\* what the ranks' counts add up to with any other number of ranks.
C16_CountPartitionIndependent ==
  pc[0] = "allgather" =>
    /\ total_overlaps = compute_forces(circles[0], 0, ncircles, ncircles).n_intersections
    /\ \A sz \in 1..MaxWorkers :
         SumCounts(circles[0], 0, ncircles, sz) = total_overlaps

\* C16's case: three ranks with unequal ranges have added up a non-zero
\* total in round 1
C16_Witness ==
  /\ size = 3
  /\ ncircles = 2
  /\ pc[0] = "allgather"
  /\ it[0] = 1
  /\ total_overlaps > 0
  /\ \E w \in Workers : local_overlaps[w] = 0
  /\ \E w \in Workers : local_overlaps[w] > 0

\* some two circles of c overlap and have distinct centres
HasOverlappingDistinctPair(c) ==
  \E i, j \in DOMAIN c :
    /\ i < j
    /\ << c[i].x, c[i].y >> # << c[j].x, c[j].y >>
    /\ Overlapping(Dist(c, i, j), RadiusSum(c, i, j))

\* C17: with more ranks than circles and an overlapping pair with distinct
\* centres at the start, after the first iteration some circle is not
\* where it was at the start.
C17_ProgressWhenOversubscribed ==
  (size > ncircles /\ HasOverlappingDistinctPair(init0)) =>
    \A w \in Workers :
      (it[w] = 1 /\ pc[w] \in {"reset", "done"}) =>
        Positions(circles[w]) # Positions(init0)

\* exactly two circles with one centre and positive radii
CoincidentPair(c) ==
  /\ DOMAIN c = {0, 1}
  /\ << c[0].x, c[0].y >> = << c[1].x, c[1].y >>
  /\ c[0].r > 0
  /\ c[1].r > 0

\* C18: from two circles with one centre, after every iteration every rank
\* holds two circles with one centre, and every printed total is non-zero.
C18_CoincidentStayTogether ==
  CoincidentPair(init0) =>
    /\ \A w \in Workers :
         (pc[w] \in {"reset", "done"}) =>
           << circles[w][0].x, circles[w][0].y >> = << circles[w][1].x, circles[w][1].y >>
    /\ \A i \in 1..Len(printed) : printed[i] # 0

\* C18's case: two ranks have run two rounds from one centre and the pair
\* has left it
C18_Witness ==
  /\ CoincidentPair(init0)
  /\ size = 2
  /\ Len(printed) = 2
  /\ \A w \in Workers : pc[w] = "done"
  /\ Positions(circles[0]) # Positions(init0)

\* the radii of an array
Radii(c) ==
  [i \in DOMAIN c |-> c[i].r]

\* C19: a step of a rank that holds the circles changes their x, y only if
\* it is the rank's move_circles (so compute_forces and the displacement
\* merge leave them alone), and no step changes a radius or n.
C19_FrameOfComputeAndMerge ==
  [][ /\ ncircles' = ncircles
      /\ \A w \in Workers :
           pc[w] # "init" =>
             /\ Radii(circles'[w]) = Radii(circles[w])
             /\ pc[w] # "move" => Positions(circles'[w]) = Positions(circles[w]) ]_vars

\* C19 for compute_forces and the merge alone
ComputeAndMergeKeepXYR ==
  [][ \A w \in Workers :
        pc[w] \in {"compute", "reduce", "allgather", "agwait"} =>
          /\ Radii(circles'[w]) = Radii(circles[w])
          /\ Positions(circles'[w]) = Positions(circles[w]) ]_vars

====
